---- MODULE Spec2Model ----
(***************************************************************************)
(* A model of app.py: the Streamlit report that loads the business         *)
(* registry (dataset.csv) and the village boundaries, keeps the rows of    *)
(* Kota Bekasi that carry coordinates, clusters them (Ward, 5 clusters)    *)
(* and renders one summary per cluster.  One script run is one behaviour:  *)
(* pc walks through the module-level statements of app.py.                 *)
(***************************************************************************)
EXTENDS Integers, Sequences, FiniteSets, TLC

VARIABLES
    csv_exists,       \* dataset.csv is present on disk
    shp_exists,       \* ADMINISTRASIDESA_AR_25K.shp is present on disk
    csv_file,         \* the table stored in dataset.csv
    data,             \* load_data: what pd.read_csv returned (line 17)
    dataset,          \* module level: the value load_data returned (line 86)
    prov_gdf,         \* module level: the boundary layer (line 87)
    bekasi_data_geo,  \* module level: the Geo-Filter's frame (lines 88, 96)
    silhouette_avg,   \* module level: the score perform_clustering returned
    unique_clusters,  \* the labels the summary loop still has to visit
    page,             \* the elements rendered so far, in order
    calls,            \* the pipeline functions invoked so far, in order
    exception,        \* the exception that ended the run uncaught, or "none"
    pc                \* the statement of the script that runs next

vars == <<csv_exists, shp_exists, csv_file, data, dataset, prov_gdf,
          bekasi_data_geo, silhouette_avg, unique_clusters, page, calls,
          exception, pc>>

(***************************************************************************)
(* Bounds of the explored inputs.                                          *)
(***************************************************************************)
\* rows of a table whose rows differ in their status field
MaxStatusRows == 3
\* rows of a table whose rows differ in municipality and coordinates
MaxGeoRows == 2
\* rows of a table of valid Bekasi rows placed on few or many points
MaxPts == 6
\* rows that share one point (one cluster) and differ in category
MaxGroup == 6

(***************************************************************************)
(* Cells.  A text cell is a string; a missing cell is NaN.  A cell that    *)
(* pd.to_numeric produced is a float: a number or the float NaN.           *)
(***************************************************************************)
NaN == "NaN"

Numerals == <<"0", "1", "2", "3", "4", "5", "6", "7", "8", "9", "10", "11", "12">>

IsNumeric(cell) == \E i \in 1..Len(Numerals) : Numerals[i] = cell

NumVal(cell) == (CHOOSE i \in 1..Len(Numerals) : Numerals[i] = cell) - 1

Float(v) == [nan |-> FALSE, v |-> v]

FloatNaN == [nan |-> TRUE, v |-> 0]

\* pd.to_numeric(series, errors='coerce'), one cell: text that does not parse
\* as a number, and a missing cell, become the float NaN
to_numeric(cell) == IF IsNumeric(cell) THEN Float(NumVal(cell)) ELSE FloatNaN

(***************************************************************************)
(* Frames.  A DataFrame is its set of column labels and its rows in order; *)
(* a row is its index label (its position in the file) and its cells.      *)
(***************************************************************************)
Frame(cols, rows) == [bound |-> TRUE, cols |-> cols, rows |-> rows]

Unbound == [bound |-> FALSE, cols |-> {}, rows |-> <<>>]

ColStatus == "Keberadaan Usaha/Perusahaan"
ColKab == "Kabupaten/Kota"
ColBentuk == "Bentuk Badan Hukum/Usaha"

\* the labels load_data passes to DataFrame.drop
DropList == {"Kode Pos", "Sektor Institusi", "Unnamed: 17", "Sumber Profiling",
             "Catatan Profiling", "IDSBR.1", "Nama Usaha.1", "Kegiatan Usaha",
             "Kategori.1", "KBLI.1"}

\* the columns load_data touches only if they are there
OptionalColumns == {"IDSBR", "KBLI", "Kelurahan/Desa"}

\* the columns the pipeline indexes without a check
RequiredColumns == {ColStatus, ColKab, "Latitude", "Longitude", "Kategori", ColBentuk}

AllColumns == DropList \cup OptionalColumns \cup RequiredColumns

Restrict(f, S) == [c \in S |-> f[c]]

\* DataFrame.drop(labels, axis=1) with the default errors='raise'
DropRaises(frame, labels) == ~(labels \subseteq frame.cols)

Drop(frame, labels) ==
    Frame(frame.cols \ labels,
          [i \in 1..Len(frame.rows) |->
              [frame.rows[i] EXCEPT !.cells = Restrict(@, frame.cols \ labels)]])

\* df[col] = pd.to_numeric(df[col], errors='coerce')
ToNumericColumn(frame, col) ==
    Frame(frame.cols,
          [i \in 1..Len(frame.rows) |->
              [frame.rows[i] EXCEPT !.cells = [@ EXCEPT ![col] = to_numeric(@)]]])

\* DataFrame.rename(columns={old: new}): a label that is absent is ignored
Rename(frame, old, new) ==
    IF old \notin frame.cols THEN frame
    ELSE LET cols == (frame.cols \ {old}) \cup {new}
         IN  Frame(cols,
                   [i \in 1..Len(frame.rows) |->
                       [frame.rows[i] EXCEPT !.cells =
                           [c \in cols |-> IF c = new THEN @[old] ELSE @[c]]]])

\* df[mask], dropna: the frame reduced to the rows given, index labels kept
Take(frame, rows) == Frame(frame.cols, rows)

\* a mutant of IsEmpty: the check of line 90 never fires
never_empty(frame) == FALSE

\* DataFrame.empty
IsEmpty(frame) == Len(frame.rows) = 0 \/ frame.cols = {}

(***************************************************************************)
(* load_data                                                               *)
(***************************************************************************)
\* a mutant of values_to_remove: the last value is forgotten
values_to_remove_short == {"Duplikat", "Tidak Ditemukan", "Tutup"}

values_to_remove == {"Duplikat", "Tidak Ditemukan", "Tutup", "Tutup Sementara"}

\* Series.isin(values), one cell: exact match, a missing cell matches nothing
isin(v, S) == v \in S

StatusKept(row) == ~isin(row.cells[ColStatus], values_to_remove)

\* st.stop(): the script run ends here; next is the statement that would
\* have followed
st_stop_ignored(next) == next

st_stop(next) == "stopped"

\* one st.* call: what it renders; a table is a list of (value, count) rows
Element(kind, text) == [kind |-> kind, text |-> text, cluster |-> -1, table |-> <<>>]

\* st.write(<a value_counts frame>) inside the pass for cluster_id
Table(column, cluster_id, entries) ==
    [kind |-> "table", text |-> column, cluster |-> cluster_id, table |-> entries]

\* a mutant of copy: dataset = data, the same object under a second name
no_copy(frame) == [alias |-> TRUE, frame |-> frame]

\* data.copy(): a new object with the same content (line 22)
copy(frame) == [alias |-> FALSE, frame |-> frame]

\* lines 23-34: the operations that change the object named dataset in place
InPlace(frame) ==
    LET dropped == Drop(frame, DropList)
        idsbr == IF "IDSBR" \in dropped.cols
                 THEN ToNumericColumn(dropped, "IDSBR") ELSE dropped
        kbli == IF "KBLI" \in idsbr.cols
                THEN ToNumericColumn(idsbr, "KBLI") ELSE idsbr
    IN  Rename(kbli, "Kelurahan/Desa", "NAMOBJ")

load_data ==
    /\ pc = "load_data"
    /\ calls' = Append(calls, "load_data")
    /\ IF ~csv_exists
       THEN /\ page' = Append(page, Element("error", "dataset.csv not found"))
            /\ pc' = st_stop("load_geojson")
            /\ UNCHANGED <<data, dataset, exception>>
       ELSE LET copied == copy(csv_file)
            IN  IF DropRaises(copied.frame, DropList)
                THEN /\ data' = csv_file
                     /\ exception' = "KeyError"
                     /\ pc' = "crashed"
                     /\ UNCHANGED <<dataset, page>>
                ELSE /\ data' = IF copied.alias THEN InPlace(copied.frame)
                                ELSE csv_file
                     /\ dataset' = Take(InPlace(copied.frame),
                                      SelectSeq(InPlace(copied.frame).rows, StatusKept))
                     /\ pc' = "load_geojson"
                     /\ UNCHANGED <<page, exception>>
    /\ UNCHANGED <<csv_exists, shp_exists, csv_file, prov_gdf, bekasi_data_geo,
                   silhouette_avg, unique_clusters>>

(***************************************************************************)
(* load_geojson                                                            *)
(***************************************************************************)
\* gpd.read_file on a missing path raises the I/O engine's own error; whether
\* that error is a FileNotFoundError depends on the installed engine, so both
\* outcomes are possible: the except clause runs, or the error is uncaught
load_geojson ==
    /\ pc = "load_geojson"
    /\ calls' = Append(calls, "load_geojson")
    /\ IF shp_exists
       THEN /\ prov_gdf' = "loaded"
            /\ pc' = "prepare"
            /\ UNCHANGED <<page, exception>>
       ELSE /\ \E caught \in BOOLEAN :
                 IF caught
                 THEN /\ page' = Append(page,
                             Element("error", "ADMINISTRASIDESA_AR_25K.shp not found"))
                      /\ pc' = st_stop("prepare")
                      /\ UNCHANGED exception
                 ELSE /\ exception' = "DataSourceError"
                      /\ pc' = "crashed"
                      /\ UNCHANGED page
            /\ UNCHANGED prov_gdf
    /\ UNCHANGED <<csv_exists, shp_exists, csv_file, data, dataset,
                   bekasi_data_geo, silhouette_avg, unique_clusters>>

(***************************************************************************)
(* prepare_bekasi_data_geo                                                 *)
(***************************************************************************)
BEKASI == "[75] BEKASI"

IsBekasi(row) == row.cells[ColKab] = BEKASI

\* a mutant of HasCoordinates: dropna looks at Latitude only
HasLatitude(row) == ~row.cells["Latitude"].nan

\* DataFrame.dropna(subset=['Latitude', 'Longitude']), one row
HasCoordinates(row) == ~row.cells["Latitude"].nan /\ ~row.cells["Longitude"].nan

\* gpd.points_from_xy(Longitude, Latitude), one row
WithGeometry(frame) ==
    Frame(frame.cols \cup {"geometry"},
          [i \in 1..Len(frame.rows) |->
              [frame.rows[i] EXCEPT !.cells =
                  [c \in frame.cols \cup {"geometry"} |->
                      IF c = "geometry"
                      THEN [x |-> @["Longitude"].v, y |-> @["Latitude"].v,
                            crs |-> "EPSG:4326"]
                      ELSE @[c]]]])

prepare_bekasi_data_geo_of(frame) ==
    LET bekasi_data == Take(frame, SelectSeq(frame.rows, IsBekasi))
        lat == ToNumericColumn(bekasi_data, "Latitude")
        lon == ToNumericColumn(lat, "Longitude")
        kept == Take(lon, SelectSeq(lon.rows, HasCoordinates))
    IN  WithGeometry(kept)

prepare_bekasi_data_geo ==
    /\ pc = "prepare"
    /\ calls' = Append(calls, "prepare_bekasi_data_geo")
    /\ bekasi_data_geo' = prepare_bekasi_data_geo_of(dataset)
    /\ pc' = "check_empty"
    /\ UNCHANGED <<csv_exists, shp_exists, csv_file, data, dataset, prov_gdf,
                   silhouette_avg, unique_clusters, page, exception>>

\* lines 90-92
check_empty ==
    /\ pc = "check_empty"
    /\ IF IsEmpty(bekasi_data_geo)
       THEN /\ page' = Append(page, Element("warning",
                          "Tidak ada data usaha yang valid untuk Kota Bekasi"))
            /\ pc' = st_stop("clustering")
       ELSE /\ pc' = "clustering"
            /\ UNCHANGED page
    /\ UNCHANGED <<csv_exists, shp_exists, csv_file, data, dataset, prov_gdf,
                   bekasi_data_geo, silhouette_avg, unique_clusters, calls,
                   exception>>

(***************************************************************************)
(* perform_clustering                                                      *)
(***************************************************************************)
\* AgglomerativeClustering(n_clusters=5, ...)
n_clusters == 5

RECURSIVE SumSeq(_)
SumSeq(s) == IF s = <<>> THEN 0 ELSE Head(s) + SumSeq(Tail(s))

\* bekasi_data_geo[['Latitude', 'Longitude']]: one <<latitude, longitude>> per row
Coordinates(frame) ==
    [i \in 1..Len(frame.rows) |->
        <<frame.rows[i].cells["Latitude"].v, frame.rows[i].cells["Longitude"].v>>]

\* StandardScaler: n*n times the variance of feature d; a feature of zero
\* variance is left unscaled (its scale is taken as 1)
ScaleSq(X, d) ==
    LET n == Len(X)
        xs == [i \in 1..n |-> X[i][d]]
        sq == [i \in 1..n |-> X[i][d] * X[i][d]]
        v == n * SumSeq(sq) - SumSeq(xs) * SumSeq(xs)
    IN  IF v = 0 THEN n * n ELSE v

\* a cluster of the tree: the rows under it (numbered from 0) and the sums
\* of their coordinates; node i of the tree is nodes[i + 1]
Leaf(X, i) == [members |-> {i}, lat |-> X[i + 1][1], lon |-> X[i + 1][2]]

Leaves(X) == [k \in 1..Len(X) |-> Leaf(X, k - 1)]

\* Ward's criterion on the standardized coordinates: the growth of the
\* within-cluster sum of squares when A and B merge, as the fraction
\* num / den (times a positive factor common to all pairs); scale[d] is
\* ScaleSq of feature d
WardCost(scale, A, B) ==
    LET a == Cardinality(A.members)
        b == Cardinality(B.members)
        dlat == A.lat * b - B.lat * a
        dlon == A.lon * b - B.lon * a
    IN  [num |-> dlat * dlat * scale[2] + dlon * dlon * scale[1],
         den |-> a * b * (a + b)]

Pairs(ids) == {p \in ids \X ids : p[1] < p[2]}

\* cost(p) <= cost(q), with the pair of smaller ids first among equal costs
PairBefore(cost, p, q) ==
    LET l == cost[p].num * cost[q].den
        r == cost[q].num * cost[p].den
    IN  \/ l < r
        \/ /\ l = r
           /\ \/ p[1] < q[1]
              \/ p[1] = q[1] /\ p[2] <= q[2]

\* scipy.cluster.hierarchy.ward: merge the cheapest pair of live clusters
\* until one is left; merge k makes node n + k with children
\* <<smaller id, larger id>>
RECURSIVE WardTree(_, _, _)
WardTree(scale, live, tree) ==
    IF Cardinality(live) <= 1 THEN tree
    ELSE LET cost == [q \in Pairs(live) |->
                         WardCost(scale, tree.nodes[q[1] + 1], tree.nodes[q[2] + 1])]
             p == CHOOSE p \in Pairs(live) :
                      \A q \in Pairs(live) : PairBefore(cost, p, q)
             A == tree.nodes[p[1] + 1]
             B == tree.nodes[p[2] + 1]
             merged == [members |-> A.members \cup B.members,
                        lat |-> A.lat + B.lat,
                        lon |-> A.lon + B.lon]
         IN  WardTree(scale, (live \ {p[1], p[2]}) \cup {Len(tree.nodes)},
                      [children |-> Append(tree.children, p),
                       nodes |-> Append(tree.nodes, merged)])

ward_tree(X) ==
    LET scale == <<ScaleSq(X, 1), ScaleSq(X, 2)>>
    IN  WardTree(scale, 0..(Len(X) - 1), [children |-> <<>>, nodes |-> Leaves(X)])

(***************************************************************************)
(* heapq, on a list held as a sequence (position p of the list is h[p+1])  *)
(***************************************************************************)
At(h, p) == h[p + 1]

Put(h, p, x) == [h EXCEPT ![p + 1] = x]

RECURSIVE SiftDownFrom(_, _, _, _)
SiftDownFrom(h, startpos, pos, newitem) ==
    IF pos > startpos /\ newitem < At(h, (pos - 1) \div 2)
    THEN SiftDownFrom(Put(h, pos, At(h, (pos - 1) \div 2)), startpos,
                      (pos - 1) \div 2, newitem)
    ELSE Put(h, pos, newitem)

siftdown(h, startpos, pos) == SiftDownFrom(h, startpos, pos, At(h, pos))

RECURSIVE SiftUpFrom(_, _, _, _)
SiftUpFrom(h, startpos, pos, newitem) ==
    LET childpos == 2 * pos + 1
        rightpos == childpos + 1
        smaller == IF rightpos < Len(h) /\ ~(At(h, childpos) < At(h, rightpos))
                   THEN rightpos ELSE childpos
    IN  IF childpos < Len(h)
        THEN SiftUpFrom(Put(h, pos, At(h, smaller)), startpos, smaller, newitem)
        ELSE siftdown(Put(h, pos, newitem), startpos, pos)

siftup(h, pos) == SiftUpFrom(h, pos, pos, At(h, pos))

heappush(h, item) == siftdown(Append(h, item), 0, Len(h))

\* the heap heappushpop leaves behind
heappushpop(h, item) ==
    IF Len(h) > 0 /\ h[1] < item THEN siftup(Put(h, 0, item), 0) ELSE h

(***************************************************************************)
(* sklearn's _hc_cut: open the tree from the root, the latest merge first, *)
(* until n_clusters nodes are left; label i goes to the leaves under the   *)
(* node at position i of the heap                                          *)
(***************************************************************************)
RECURSIVE CutNodes(_, _, _, _)
CutNodes(nodes, children, n_leaves, k) ==
    IF k = 0 THEN nodes
    ELSE LET these_children == children[(-nodes[1]) - n_leaves + 1]
             pushed == heappush(nodes, -these_children[1])
         IN  CutNodes(heappushpop(pushed, -these_children[2]),
                      children, n_leaves, k - 1)

\* a mutant of LabelOf: labels are numbered from 1
LabelOfFromOne(heap, tree, leaf) ==
    CHOOSE i \in 1..Len(heap) : leaf \in tree.nodes[(-heap[i]) + 1].members

\* enumerate(nodes): the position, from 0, of the node that holds the leaf
LabelOf(heap, tree, leaf) ==
    (CHOOSE i \in 1..Len(heap) : leaf \in tree.nodes[(-heap[i]) + 1].members) - 1

hc_cut(k, tree, n_leaves) ==
    LET root == n_leaves + Len(tree.children) - 1
        heap == CutNodes(<<-root>>, tree.children, n_leaves, k - 1)
    IN  [i \in 1..n_leaves |-> LabelOf(heap, tree, i - 1)]

\* StandardScaler.fit_transform needs one sample, AgglomerativeClustering.fit
\* two, and _hc_cut cannot extract more clusters than there are samples: each
\* raises ValueError
FitPredictRaises(X) == Len(X) < 1 \/ Len(X) < 2 \/ n_clusters > Len(X)

\* AgglomerativeClustering(n_clusters=5, linkage='ward').fit_predict
fit_predict(X) ==
    LET tree == ward_tree(X)
    IN  hc_cut(n_clusters, tree, Len(X))

LabelSet(labels) == {labels[i] : i \in 1..Len(labels)}

\* silhouette_score's check_number_of_labels: 2 <= n_labels <= n_samples - 1,
\* ValueError otherwise
SilhouetteRaises(labels) ==
    ~(1 < Cardinality(LabelSet(labels)) /\ Cardinality(LabelSet(labels)) < Len(labels))

\* bekasi_data_geo['cluster'] = clusters
WithCluster(frame, clusters) ==
    Frame(frame.cols \cup {"cluster"},
          [i \in 1..Len(frame.rows) |->
              [frame.rows[i] EXCEPT !.cells =
                  [c \in frame.cols \cup {"cluster"} |->
                      IF c = "cluster" THEN clusters[i] ELSE @[c]]]])

\* the frame is passed by reference: the label column is attached to the
\* caller's object before the score is computed
perform_clustering ==
    /\ pc = "clustering"
    /\ calls' = Append(calls, "perform_clustering")
    /\ LET X == Coordinates(bekasi_data_geo)
       IN  IF FitPredictRaises(X)
           THEN /\ exception' = "ValueError"
                /\ pc' = "crashed"
                /\ UNCHANGED <<bekasi_data_geo, silhouette_avg>>
           ELSE LET clusters == fit_predict(X)
                IN  /\ bekasi_data_geo' = WithCluster(bekasi_data_geo, clusters)
                    /\ IF SilhouetteRaises(clusters)
                       THEN /\ exception' = "ValueError"
                            /\ pc' = "crashed"
                            /\ UNCHANGED silhouette_avg
                       ELSE /\ silhouette_avg' = "computed"
                            /\ pc' = "render"
                            /\ UNCHANGED exception
    /\ UNCHANGED <<csv_exists, shp_exists, csv_file, data, dataset, prov_gdf,
                   unique_clusters, page>>

(***************************************************************************)
(* Rendering and the per-cluster summary (lines 98-150)                    *)
(***************************************************************************)
\* Series.unique(): the distinct values in order of first appearance
RECURSIVE Unique(_)
Unique(s) ==
    IF s = <<>> THEN <<>>
    ELSE LET init == Unique(SubSeq(s, 1, Len(s) - 1))
             last == s[Len(s)]
         IN  IF \E i \in 1..Len(init) : init[i] = last THEN init
             ELSE Append(init, last)

\* a mutant of sorted: the labels stay in order of first appearance
not_sorted(s) == s

\* sorted(): ascending
RECURSIVE sorted(_)
sorted(s) ==
    IF s = <<>> THEN <<>>
    ELSE LET m == CHOOSE i \in 1..Len(s) : \A j \in 1..Len(s) : s[i] <= s[j]
         IN  <<s[m]>> \o sorted(SubSeq(s, 1, m - 1) \o SubSeq(s, m + 1, Len(s)))

Column(frame, col) == [i \in 1..Len(frame.rows) |-> frame.rows[i].cells[col]]

Count(s, v) == Cardinality({i \in 1..Len(s) : s[i] = v})

IsMissing(v) == v = NaN

NotMissing(v) == ~IsMissing(v)

\* stable insertion of entry e into a list sorted by descending count
RECURSIVE InsertByCount(_, _)
InsertByCount(sortedEntries, e) ==
    IF sortedEntries = <<>> THEN <<e>>
    ELSE IF Head(sortedEntries).count >= e.count
         THEN <<Head(sortedEntries)>> \o InsertByCount(Tail(sortedEntries), e)
         ELSE <<e>> \o sortedEntries

RECURSIVE SortByCount(_)
SortByCount(entries) ==
    IF entries = <<>> THEN <<>>
    ELSE InsertByCount(SortByCount(SubSeq(entries, 1, Len(entries) - 1)),
                       entries[Len(entries)])

\* a mutant of value_counts: the default dropna=True
value_counts_dropna(s, dropna) ==
    LET vals == Unique(SelectSeq(s, NotMissing))
    IN  SortByCount([i \in 1..Len(vals) |->
                        [value |-> vals[i], count |-> Count(s, vals[i])]])

\* Series.value_counts(dropna=...): one entry per distinct value, the most
\* frequent first, equal counts in order of first appearance
value_counts(s, dropna) ==
    LET vals == Unique(IF dropna THEN SelectSeq(s, NotMissing) ELSE s)
    IN  SortByCount([i \in 1..Len(vals) |->
                        [value |-> vals[i], count |-> Count(s, vals[i])]])

\* the default n of Series.head()
HeadRows == 5

head(s) == SubSeq(s, 1, IF Len(s) < HeadRows THEN Len(s) ELSE HeadRows)

\* lines 98-116
render ==
    /\ pc = "render"
    /\ page' = page \o <<Element("header", "Hasil Hierarchical Clustering"),
                         Element("score", silhouette_avg),
                         Element("map", "Hierarchical Clusters of Businesses"),
                         Element("header", "Ringkasan Karakteristik Bisnis per Klaster")>>
    /\ unique_clusters' = sorted(Unique(Column(bekasi_data_geo, "cluster")))
    /\ pc' = "summary"
    /\ UNCHANGED <<csv_exists, shp_exists, csv_file, data, dataset, prov_gdf,
                   bekasi_data_geo, silhouette_avg, calls, exception>>

\* one pass of the loop of lines 118-126
summary ==
    /\ pc = "summary"
    /\ unique_clusters # <<>>
    /\ LET cluster_id == Head(unique_clusters)
           InCluster(row) == row.cells["cluster"] = cluster_id
           cluster_data == Take(bekasi_data_geo,
                                SelectSeq(bekasi_data_geo.rows, InCluster))
       IN  page' = page \o
               << [Element("subheader", "Klaster") EXCEPT !.cluster = cluster_id],
                  Element("text", "Kategori Dominan"),
                  Table("Kategori", cluster_id,
                        head(value_counts(Column(cluster_data, "Kategori"), FALSE))),
                  Element("text", "Bentuk Badan Hukum/Usaha Dominan"),
                  Table(ColBentuk, cluster_id,
                        head(value_counts(Column(cluster_data, ColBentuk), FALSE))) >>
    /\ unique_clusters' = Tail(unique_clusters)
    /\ UNCHANGED <<csv_exists, shp_exists, csv_file, data, dataset, prov_gdf,
                   bekasi_data_geo, silhouette_avg, calls, exception, pc>>

\* lines 128-150
conclusion ==
    /\ pc = "summary"
    /\ unique_clusters = <<>>
    /\ page' = Append(page, Element("header", "Kesimpulan Umum"))
    /\ pc' = "done"
    /\ UNCHANGED <<csv_exists, shp_exists, csv_file, data, dataset, prov_gdf,
                   bekasi_data_geo, silhouette_avg, unique_clusters, calls,
                   exception>>

(***************************************************************************)
(* The inputs: the two files.  dataset.csv holds one of the tables below.  *)
(***************************************************************************)
FileRow(idx, status, kab, lat, lon, kategori, bentuk) ==
    [idx |-> idx,
     cells |-> [c \in AllColumns |->
        CASE c = ColStatus -> status
          [] c = ColKab -> kab
          [] c = "Latitude" -> lat
          [] c = "Longitude" -> lon
          [] c = "Kategori" -> kategori
          [] c = ColBentuk -> bentuk
          [] c = "IDSBR" -> Numerals[idx + 1]
          [] c = "KBLI" -> IF idx % 2 = 0 THEN "7" ELSE "n/a"
          [] c = "Kelurahan/Desa" -> "MARGAHAYU"
          [] c = "Unnamed: 17" -> NaN
          [] OTHER -> "-"]]

SeqsUpTo(S, n) == UNION {[1..k -> S] : k \in 0..n}

StatusVals == {"Aktif", "Duplikat", "Tidak Ditemukan", "Tutup", "Tutup Sementara",
               "tutup", NaN}

\* valid Bekasi rows on distinct points that differ in their status alone
StatusRows(n) ==
    {[i \in 1..Len(st) |->
         FileRow(i - 1, st[i], BEKASI, Numerals[i + 1], "0", "G", "1. Perseroan")] :
     st \in SeqsUpTo(StatusVals, n)}

GeoKinds == {BEKASI, "[75] bekasi", "[16] BOGOR"} \X {"1", "abc", NaN} \X {"2", "-"}

\* active rows that differ in municipality and in their coordinate cells
GeoRows(n) ==
    {[i \in 1..Len(g) |->
         FileRow(i - 1, "Aktif", g[i][1], g[i][2], g[i][3], "G", "1. Perseroan")] :
     g \in SeqsUpTo(GeoKinds, n) \ {<<>>}}

\* valid Bekasi rows, each on its own point or on one shared point
PointRows(n) ==
    {[i \in 1..Len(own) |->
         IF own[i]
         THEN FileRow(i - 1, "Aktif", BEKASI, Numerals[i + 1], "0", "F", "1. Perseroan")
         ELSE FileRow(i - 1, "Aktif", BEKASI, "0", "1", "G", "CV")] :
     own \in SeqsUpTo(BOOLEAN, n) \ {<<>>}}

Templates ==
    << [kategori |-> "G", bentuk |-> "Usaha Orang Perseorangan"],
       [kategori |-> "F", bentuk |-> "1. Perseroan"],
       [kategori |-> NaN, bentuk |-> "1. Perseroan"],
       [kategori |-> "C", bentuk |-> "CV"],
       [kategori |-> "I", bentuk |-> NaN],
       [kategori |-> "H", bentuk |-> "Usaha Orang Perseorangan"],
       [kategori |-> "A", bentuk |-> "1. Perseroan"],
       [kategori |-> "Q", bentuk |-> "CV"] >>

MaxOf(s) == IF s = <<>> THEN 0 ELSE CHOOSE m \in 1..Len(Templates) :
                (\E i \in 1..Len(s) : s[i] = m) /\ (\A i \in 1..Len(s) : s[i] <= m)

\* the template of each row of the group: a row takes a template used before
\* it or the first unused one (every pattern of equal and distinct values)
RECURSIVE Patterns(_)
Patterns(k) ==
    IF k = 0 THEN {<<>>}
    ELSE UNION {{Append(s, j) : j \in {m \in 1..Len(Templates) : m <= MaxOf(s) + 1}} :
                s \in Patterns(k - 1)}

\* four rows on points of their own, then a group of rows on one point
GroupRows(n) ==
    {[i \in 1..(n_clusters - 1 + Len(t)) |->
         IF i < n_clusters
         THEN FileRow(i - 1, "Aktif", BEKASI, Numerals[2 * i + 1], "0", "G", "CV")
         ELSE FileRow(i - 1, "Aktif", BEKASI, "0", "1",
                      Templates[t[i - n_clusters + 1]].kategori,
                      Templates[t[i - n_clusters + 1]].bentuk)] :
     t \in UNION {Patterns(k) : k \in 1..n}}

\* the columns a file may lack, one at a time
MissingSets == {{}} \cup {{c} : c \in DropList \cup OptionalColumns}

Without(rows, missing) ==
    [i \in 1..Len(rows) |->
        [rows[i] EXCEPT !.cells = Restrict(@, AllColumns \ missing)]]

Inputs ==
    {[csv |-> TRUE, shp |-> TRUE, table |-> Frame(AllColumns, rows)] :
        rows \in StatusRows(MaxStatusRows) \cup GeoRows(MaxGeoRows)
                 \cup PointRows(MaxPts) \cup GroupRows(MaxGroup)}
    \cup
    {[csv |-> c[1], shp |-> c[2],
      table |-> Frame(AllColumns \ c[3], Without(c[4], c[3]))] :
        c \in BOOLEAN \X BOOLEAN \X MissingSets \X StatusRows(1)}

\* lines 80-82 have run: the page holds its title
Init ==
    /\ \E in \in Inputs :
          /\ csv_exists = in.csv
          /\ shp_exists = in.shp
          /\ csv_file = in.table
    /\ data = Unbound
    /\ dataset = Unbound
    /\ prov_gdf = "unbound"
    /\ bekasi_data_geo = Unbound
    /\ silhouette_avg = "unbound"
    /\ unique_clusters = <<>>
    /\ page = <<Element("title", "Analisis Klaster Usaha di Kota Bekasi")>>
    /\ calls = <<>>
    /\ exception = "none"
    /\ pc = "load_data"

Next ==
    \/ load_data
    \/ load_geojson
    \/ prepare_bekasi_data_geo
    \/ check_empty
    \/ perform_clustering
    \/ render
    \/ summary
    \/ conclusion

Spec == Init /\ [][Next]_vars

(***************************************************************************)
(* Properties                                                              *)
(***************************************************************************)
Called(f) == \E i \in 1..Len(calls) : calls[i] = f

Last(s) == s[Len(s)]

\* the frame the Geo-Filter handed to the caller, before any label
GeoInput == prepare_bekasi_data_geo_of(dataset)

GeoRowsOf(c) == {i \in 1..Len(bekasi_data_geo.rows) :
                    bekasi_data_geo.rows[i].cells["cluster"] = c}

ValuesIn(c, col) == {bekasi_data_geo.rows[i].cells[col] : i \in GeoRowsOf(c)}

CountIn(c, col, v) ==
    Cardinality({i \in GeoRowsOf(c) : bekasi_data_geo.rows[i].cells[col] = v})

SumCounts(t) == SumSeq([k \in 1..Len(t) |-> t[k].count])

TablesOf(col) == {i \in 1..Len(page) : page[i].kind = "table" /\ page[i].text = col}

\* C1: every row of the record set load_data returned has a status that is
\* none of 'Duplikat', 'Tidak Ditemukan', 'Tutup', 'Tutup Sementara'
C1_ExclusionCompleteness ==
    dataset.bound =>
        \A i \in 1..Len(dataset.rows) :
            dataset.rows[i].cells[ColStatus] \notin
                {"Duplikat", "Tidak Ditemukan", "Tutup", "Tutup Sementara"}

\* load_data returned a non-empty record set from a file that held a
\* 'Tutup Sementara' row and a 'Duplikat' row
C1_Witness ==
    /\ dataset.bound
    /\ Len(dataset.rows) > 0
    /\ \E i \in 1..Len(csv_file.rows) :
           csv_file.rows[i].cells[ColStatus] = "Tutup Sementara"
    /\ \E i \in 1..Len(csv_file.rows) :
           csv_file.rows[i].cells[ColStatus] = "Duplikat"

\* C2: every record of the Geo-Filter's output has a numeric latitude and
\* longitude and the municipality '[75] BEKASI', and comes from a file row
\* whose latitude and longitude cells both parse as numbers
C2_CoordinateCompleteness ==
    bekasi_data_geo.bound =>
        \A i \in 1..Len(bekasi_data_geo.rows) :
            LET row == bekasi_data_geo.rows[i]
                source == csv_file.rows[row.idx + 1]
            IN  /\ ~row.cells["Latitude"].nan
                /\ ~row.cells["Longitude"].nan
                /\ row.cells[ColKab] = "[75] BEKASI"
                /\ IsNumeric(source.cells["Latitude"])
                /\ IsNumeric(source.cells["Longitude"])

\* the Geo-Filter kept a row and dropped a Bekasi row whose latitude parses
\* and whose longitude does not
C2_Witness ==
    /\ bekasi_data_geo.bound
    /\ Len(bekasi_data_geo.rows) > 0
    /\ \E i \in 1..Len(dataset.rows) :
           /\ dataset.rows[i].cells[ColKab] = "[75] BEKASI"
           /\ dataset.rows[i].cells["Latitude"] = "1"
           /\ dataset.rows[i].cells["Longitude"] = "-"

\* C3: once the Geo-Filter has yielded zero rows and the check of line 90 has
\* run, the run has stopped on a warning and perform_clustering was not called
C3_EmptyHalts ==
    (bekasi_data_geo.bound /\ Len(bekasi_data_geo.rows) = 0 /\ pc # "check_empty") =>
        /\ pc = "stopped"
        /\ Last(page).kind = "warning"
        /\ ~Called("perform_clustering")

\* the run stopped on the warning for a file whose rows all have status 'Tutup'
C3_Witness ==
    /\ pc = "stopped"
    /\ Last(page).kind = "warning"
    /\ Len(csv_file.rows) > 1
    /\ \A i \in 1..Len(csv_file.rows) : csv_file.rows[i].cells[ColStatus] = "Tutup"
    /\ dataset.bound /\ Len(dataset.rows) = 0

\* C4: with dataset.csv missing the run ends in load_data, with the boundary
\* file missing it ends in load_geojson: an error is reported, each loader was
\* called once, no later stage was called and nothing but the title and the
\* error is on the page
C4_MissingFileHalts ==
    /\ (~csv_exists /\ Called("load_data")) =>
           /\ pc = "stopped"
           /\ calls = <<"load_data">>
           /\ Len(page) = 2 /\ page[2].kind = "error"
    /\ (csv_exists /\ ~shp_exists /\ Called("load_geojson")) =>
           /\ pc \in {"stopped", "crashed"}
           /\ calls = <<"load_data", "load_geojson">>
           /\ \/ pc = "stopped" /\ Len(page) = 2 /\ page[2].kind = "error"
              \/ pc = "crashed" /\ Len(page) = 1 /\ exception # "none"
           /\ ~bekasi_data_geo.bound

\* load_data returned a non-empty record set, then the boundary file was
\* found missing and the run stopped on the error
C4_Witness ==
    /\ csv_exists /\ ~shp_exists
    /\ dataset.bound /\ Len(dataset.rows) > 0
    /\ pc = "stopped"
    /\ Last(page).kind = "error"

\* C5: for a file that lacks a column of the drop list, load_data still
\* completes and returns the cleaned record set
C5_DropTolerant ==
    (csv_exists /\ Called("load_data") /\ ~(DropList \subseteq csv_file.cols)) =>
        dataset.bound /\ exception = "none"

\* C6 as stated: for every non-empty Geo-Tagged set passed to
\* perform_clustering, every record has a label in [0, 5) and the row count
\* is that of the input
C6_Original ==
    (Called("perform_clustering") /\ Len(GeoInput.rows) > 0) =>
        /\ "cluster" \in bekasi_data_geo.cols
        /\ Len(bekasi_data_geo.rows) = Len(GeoInput.rows)
        /\ \A i \in 1..Len(bekasi_data_geo.rows) :
               bekasi_data_geo.rows[i].cells["cluster"] \in 0..4

\* C6 as amended: perform_clustering returns exactly for sets of at least 6
\* records, and then every input record, in input order, carries one label in
\* [0, 5); for 1 to 5 records it raises ValueError and returns nothing
C6_LabelCoverage ==
    Called("perform_clustering") =>
        IF Len(GeoInput.rows) >= 6
        THEN /\ pc # "crashed"
             /\ silhouette_avg = "computed"
             /\ bekasi_data_geo.cols = GeoInput.cols \cup {"cluster"}
             /\ Len(bekasi_data_geo.rows) = Len(GeoInput.rows)
             /\ \A i \in 1..Len(bekasi_data_geo.rows) :
                    /\ bekasi_data_geo.rows[i].idx = GeoInput.rows[i].idx
                    /\ bekasi_data_geo.rows[i].cells["cluster"] \in 0..4
        ELSE /\ pc = "crashed"
             /\ exception = "ValueError"
             /\ silhouette_avg = "unbound"

\* perform_clustering returned for a set of 8 records or more that lie on at
\* least 5 distinct points
C6_Witness ==
    /\ Called("perform_clustering")
    /\ pc = "render"
    /\ Len(bekasi_data_geo.rows) >= 8
    /\ Cardinality({bekasi_data_geo.rows[i].cells["geometry"] :
                       i \in 1..Len(bekasi_data_geo.rows)}) >= 5

\* C7 as stated: the counts shown in a cluster's category table add up to the
\* number of records that carry the cluster's label
C7_Original ==
    \A i \in TablesOf("Kategori") :
        SumCounts(page[i].table) = Cardinality(GeoRowsOf(page[i].cluster))

\* C7 as amended: the counts shown add up to the number of the cluster's
\* records when the cluster has at most 5 distinct category values, a missing
\* value counted as a value of its own, and to less when it has more
C7_SummaryConsistency ==
    \A i \in TablesOf("Kategori") :
        LET c == page[i].cluster
        IN  IF Cardinality(ValuesIn(c, "Kategori")) <= 5
            THEN SumCounts(page[i].table) = Cardinality(GeoRowsOf(c))
            ELSE SumCounts(page[i].table) < Cardinality(GeoRowsOf(c))

\* a category table that shows the missing value as a bucket of two records
\* beside two other values
C7_Witness ==
    \E i \in TablesOf("Kategori") :
        /\ Len(page[i].table) = 3
        /\ \E k \in 1..3 : page[i].table[k].value = NaN /\ page[i].table[k].count = 2
        /\ SumCounts(page[i].table) = Cardinality(GeoRowsOf(page[i].cluster))

IsSubheader(e) == e.kind = "subheader"

\* the table shows the n most frequent values of the column within cluster c
TopValues(t, c, col, n) ==
    /\ Len(t) = IF Cardinality(ValuesIn(c, col)) < n
                THEN Cardinality(ValuesIn(c, col)) ELSE n
    /\ \A k \in 1..Len(t) : t[k].count = CountIn(c, col, t[k].value) /\ t[k].count > 0
    /\ \A k \in 1..Len(t) : \A l \in 1..Len(t) :
           k < l => t[k].value # t[l].value /\ t[k].count >= t[l].count
    /\ \A v \in ValuesIn(c, col) :
           (\A k \in 1..Len(t) : t[k].value # v) => CountIn(c, col, v) <= Last(t).count

\* one sub-header per distinct label, in ascending label order
OnePerLabelAscending ==
    LET subs == SelectSeq(page, IsSubheader)
        labels == {bekasi_data_geo.rows[i].cells["cluster"] :
                      i \in 1..Len(bekasi_data_geo.rows)}
    IN  /\ Len(subs) = Cardinality(labels)
        /\ \A k \in 1..Len(subs) : subs[k].cluster \in labels
        /\ \A k \in 1..Len(subs) : \A l \in 1..Len(subs) :
               k < l => subs[k].cluster < subs[l].cluster

C9_DegenerateRaises ==
    (/\ Called("perform_clustering")
     /\ Cardinality({GeoInput.rows[i].cells["geometry"] :
                        i \in 1..Len(GeoInput.rows)}) < 5) =>
        /\ pc = "crashed"
        /\ exception = "ValueError"
        /\ silhouette_avg = "unbound"

\* C10: the record set load_data returned holds, in file order and once each,
\* exactly the file rows whose status is none of the four exclusion values,
\* with their cells as read, and the table read_csv returned is unchanged
C10_LoaderFrame ==
    /\ data.bound => data = csv_file
    /\ dataset.bound =>
           LET Stays(row) == row.cells[ColStatus] \notin
                   {"Duplikat", "Tidak Ditemukan", "Tutup", "Tutup Sementara"}
               kept == SelectSeq(csv_file.rows, Stays)
           IN  /\ Len(dataset.rows) = Len(kept)
               /\ \A i \in 1..Len(kept) :
                      /\ dataset.rows[i].idx = kept[i].idx
                      /\ \A c \in RequiredColumns :
                             dataset.rows[i].cells[c] = kept[i].cells[c]

\* load_data returned a record set that kept a row of missing status and a
\* row of status 'tutup' and dropped a row
C10_Witness ==
    /\ dataset.bound
    /\ Len(dataset.rows) < Len(csv_file.rows)
    /\ \E i \in 1..Len(dataset.rows) : dataset.rows[i].cells[ColStatus] = NaN
    /\ \E i \in 1..Len(dataset.rows) : dataset.rows[i].cells[ColStatus] = "tutup"

====
